---- MODULE Spec2Model ----
(***************************************************************************)
(* Model of the TX2 HSP doorbell driver, libtx2bpmp/src/hsp.c.             *)
(*                                                                         *)
(* Pointers are integers (byte addresses, NULL = 0).  The HSP register     *)
(* block is one physical device: every live mapping of tx2_hsp_region is a *)
(* window onto the same registers, so the register file `reg' is indexed   *)
(* by byte offset from the start of the block and an address a reaches     *)
(* register o when a = b + o for a currently mapped base b.  An access     *)
(* through an address that no live mapping covers is undefined behaviour:  *)
(* the process faults, or the access misses the device altogether.         *)
(***************************************************************************)
EXTENDS Integers, Sequences, FiniteSets, TLC

----------------------------------------------------------------------------
(* Bounds of the model *)

\* at most this many PENDING registers are non-zero at the same time
MaxPendingRegs == 2
\* at most this many doorbells are rung in one run
MaxRung == 1
\* largest value of each 4-bit count of the dimension register in InitDim,
\* beside the all-ones value 15
MaxDimField == 4

----------------------------------------------------------------------------
(* Constants of hsp.c *)

NULL == 0
EINVAL == 22
ENOMEM == 12

BIT(n) == 2 ^ n

HSP_INT_DIMENSION_OFFSET == 896
HSP_INT_DIMENSION_SM_SHIFT == 0
HSP_INT_DIMENSION_SS_SHIFT == 4
HSP_INT_DIMENSION_AS_SHIFT == 8
HSP_INT_DIMENSION_NUM_MASK == 15

HSP_DOORBELL_BLOCK_STRIDE == 256

HSP_BITMAP_TZ_SECURE_SHFIT == 0
HSP_BITMAP_TZ_NONSECURE_SHIFT == 16

\* enum dbell_reg_offset
DBELL_TRIGGER == 0
DBELL_ENABLE == 4
DBELL_RAW == 8
DBELL_PENDING == 12

\* enum dbell_bitmap_offset (the members the driver uses)
CCPLEX_BIT == BIT(1)
BPMP_BIT == BIT(3)
SPE_BIT == BIT(4)
CPE_BIT == BIT(5)
SCE_BIT == CPE_BIT
APE_BIT == BIT(11)

\* enum tx2_doorbell_id (tx2bpmp/hsp.h): 0-based, contiguous
CCPLEX_PM_DBELL == 0
CCPLEX_TZ_UNSECURE_DBELL == 1
CCPLEX_TZ_SECURE_DBELL == 2
BPMP_DBELL == 3
SPE_DBELL == 4
SCE_DBELL == 5
APE_DBELL == 6

\* the physical region handed to the mapper; base and length come from the
\* platform header and are kept symbolic
tx2_hsp_region ==
    [type |-> "PMEM_TYPE_DEVICE", base_addr |-> "TX2_HSP_PADDR", length |-> "TX2_HSP_SIZE"]

----------------------------------------------------------------------------
(* 32-bit arithmetic.  A uint32_t is the set of the positions of its 1    *)
(* bits, so that all 32 bits are kept; ToBits and ToInt convert the values *)
(* below 2^31 that the driver handles as int.                              *)

WordBits == 0 .. 31

ToBits(n) == {i \in 0 .. 30 : (n \div (2 ^ i)) % 2 = 1}

RECURSIVE ToInt(_)
ToInt(w) ==
    IF w = {} THEN 0
    ELSE LET i == CHOOSE j \in w : TRUE IN (2 ^ i) + ToInt(w \ {i})

Shr(w, n) == {i - n : i \in {j \in w : j >= n}}
Shl(w, n) == {i + n : i \in {j \in w : j + n <= 31}}
Not32(w) == WordBits \ w
And32(a, b) == a \cap b
Or32(a, b) == a \cup b

----------------------------------------------------------------------------
(* Pure functions of hsp.c *)

\* variant: the upper bound one past the last id
check_doorbell_id_is_valid_past_end(db_id) ==
    CCPLEX_PM_DBELL <= db_id /\ db_id <= APE_DBELL + 1

check_doorbell_id_is_valid(db_id) ==
    CCPLEX_PM_DBELL <= db_id /\ db_id <= APE_DBELL

ValidIds == CCPLEX_PM_DBELL .. APE_DBELL

\* variant: the arithmetic scaled as on a uint32_t *
tx2_hsp_get_doorbell_register_scaled(doorbell_base, db_id, offset) ==
    doorbell_base + (db_id * HSP_DOORBELL_BLOCK_STRIDE + offset) * 4

\* tx2_hsp_get_doorbell_register: doorbell_base is a void *, so the
\* arithmetic is in bytes
tx2_hsp_get_doorbell_register(doorbell_base, db_id, offset) ==
    doorbell_base + db_id * HSP_DOORBELL_BLOCK_STRIDE + offset

\* the switch of tx2_hsp_doorbell_check
bitmap_offset(db_id) ==
    CASE db_id \in {CCPLEX_PM_DBELL, CCPLEX_TZ_UNSECURE_DBELL, CCPLEX_TZ_SECURE_DBELL}
             -> CCPLEX_BIT
      [] db_id = BPMP_DBELL -> BPMP_BIT
      [] db_id = SPE_DBELL -> SPE_BIT
      [] db_id = SCE_DBELL -> SCE_BIT
      [] db_id = APE_DBELL -> APE_BIT
      [] OTHER -> 0

\* the case labels of that switch; any other id reaches ZF_LOGF
SwitchIds ==
    {CCPLEX_PM_DBELL, CCPLEX_TZ_UNSECURE_DBELL, CCPLEX_TZ_SECURE_DBELL,
     BPMP_DBELL, SPE_DBELL, SCE_DBELL, APE_DBELL}

\* the mask tested and cleared by tx2_hsp_doorbell_check
pending_mask(db_id) == Shl(ToBits(bitmap_offset(db_id)), HSP_BITMAP_TZ_NONSECURE_SHIFT)

num_sm(dimv) ==
    ToInt(And32(Shr(dimv, HSP_INT_DIMENSION_SM_SHIFT), ToBits(HSP_INT_DIMENSION_NUM_MASK)))
num_ss(dimv) ==
    ToInt(And32(Shr(dimv, HSP_INT_DIMENSION_SS_SHIFT), ToBits(HSP_INT_DIMENSION_NUM_MASK)))
num_as(dimv) ==
    ToInt(And32(Shr(dimv, HSP_INT_DIMENSION_AS_SHIFT), ToBits(HSP_INT_DIMENSION_NUM_MASK)))

\* variant: the mailbox count not halved
doorbell_offset_whole_sm(dimv) ==
    (1 + num_sm(dimv) + num_ss(dimv) + num_as(dimv)) * 65536

\* byte offset of the doorbell page from the HSP base, hsp.c line 105
doorbell_offset(dimv) ==
    (1 + (num_sm(dimv) \div 2) + num_ss(dimv) + num_as(dimv)) * 65536

----------------------------------------------------------------------------
(* Environment: the mapper and the HSP hardware *)

\* virtual addresses the mapper can hand out
MapBases == {16777216}

\* what an uninitialised handle field can hold
GarbagePtrs == {NULL, 64}

\* a dimension register value from its fields
DimOf(sm, ss, as, hi) ==
    ToBits(sm) \cup Shl(ToBits(ss), 4) \cup Shl(ToBits(as), 8) \cup Shl(ToBits(hi), 12)

\* dimension register values of the hardware in the main specification
DimValues == {DimOf(4, 2, 1, 0), DimOf(15, 15, 15, 1048575)}

\* every combination of the three counts and of the bits above them
DimFieldValues == (0 .. MaxDimField) \cup {HSP_INT_DIMENSION_NUM_MASK}
WideDimValues ==
    {DimOf(sm, ss, as, hi) :
        sm \in DimFieldValues, ss \in DimFieldValues, as \in DimFieldValues,
        hi \in {0, 1048575}}
AllDimValues == DimValues \cup WideDimValues

\* the count the hardware keeps in bits [lo+3 : lo] of the dimension register
HwCount(dimv, lo) == ToInt({i - lo : i \in {j \in dimv : lo <= j /\ j <= lo + 3}})

\* the layout of the hardware (TRM section 14.8.5, quoted at lines 92-95):
\* DB{db}_BASE = HSP_BASE + (1 + nSM/2 + nSS + nAS) * 64 KiB + {db} * 0x100
HwDoorbellPage ==
    [d \in AllDimValues |->
        (1 + (HwCount(d, 0) \div 2) + HwCount(d, 4) + HwCount(d, 8)) * 65536]

HwRegOff(dimv, id, r) == HwDoorbellPage[dimv] + id * 256 + r
HwPendingOff(dimv, id) == HwRegOff(dimv, id, 12)
HwTriggerOff(dimv, id) == HwRegOff(dimv, id, 0)

\* register offsets of the block whose dimension register reads dimv
DoorbellRegs(dimv) == {HwRegOff(dimv, id, r) : id \in 0 .. 6, r \in {0, 4, 8, 12}}

\* the bits the hardware raises in the PENDING register of doorbell id:
\* the non-secure and the secure bit of the id's class
HwBits(id) ==
    {pending_mask(id), Shl(ToBits(bitmap_offset(id)), HSP_BITMAP_TZ_SECURE_SHFIT)}

----------------------------------------------------------------------------
(* State *)

VARIABLES
    dim,      \* the value the hardware reports in the dimension register
    reg,      \* register file of the HSP block, by byte offset
    mapped,   \* virtual bases at which the block is currently mapped
    stray,    \* addresses the mapper was asked to unmap with no mapping there
    hsp,      \* the caller's tx2_hsp_t: [hsp_base, doorbell_base]
    pc,       \* position of the caller inside tx2_hsp_doorbell_check
    cur,      \* locals of the tx2_hsp_doorbell_check in progress
    fresh,    \* doorbell ids with a hardware event no check has reported yet
    crashed,  \* the process has faulted
    last      \* the last call: arguments, result, register and mapper traffic

vars == <<dim, reg, mapped, stray, hsp, pc, cur, fresh, crashed, last>>

NoCall == [op |-> "none", hspNull |-> FALSE, id |-> 0, ret |-> 0,
           acc |-> <<>>, mcalls |-> <<>>]

NoCur == [id |-> 0, addr |-> 0, off |-> 0, tmp |-> {}]

RegInit(dimv) ==
    [o \in DoorbellRegs(dimv) \cup {HSP_INT_DIMENSION_OFFSET} |->
        IF o = HSP_INT_DIMENSION_OFFSET THEN dimv ELSE {}]

\* what the hardware holds when the program starts: a BPMP event already
\* latched (the first check of BPMP_DBELL leaves nothing pending)
InitPending == {{BPMP_DBELL}}

InitWith(dims, pends, garbage) ==
    /\ dim \in dims
    /\ fresh \in pends
    /\ reg = [o \in DOMAIN RegInit(dim) |->
                IF \E id \in fresh : o = HwPendingOff(dim, id)
                THEN pending_mask(BPMP_DBELL) ELSE RegInit(dim)[o]]
    /\ mapped = {}
    /\ stray = {}
    /\ hsp \in {[hsp_base |-> g, doorbell_base |-> g] : g \in garbage}
    /\ pc = "idle"
    /\ cur = NoCur
    /\ crashed = FALSE
    /\ last = NoCall

Init == InitWith(DimValues, InitPending, GarbagePtrs)

\* the hardware of the worked example, nothing pending yet
InitHw == InitWith({DimOf(4, 2, 1, 0)}, {{}}, {NULL})

InitDim == InitWith(WideDimValues, {{}}, GarbagePtrs)

\* the register offsets an address reaches through the live mappings
Resolve(a) == {o \in {a - b : b \in mapped} : o \in DOMAIN reg}

Rd(a, v) == [kind |-> "read", addr |-> a, val |-> v, old |-> v]
Wr(a, v, o) == [kind |-> "write", addr |-> a, val |-> v, old |-> o]

Call(op, hn, id, ret, acc, mcalls) ==
    [op |-> op, hspNull |-> hn, id |-> id, ret |-> ret, acc |-> acc, mcalls |-> mcalls]

Ready == pc = "idle" /\ ~crashed

----------------------------------------------------------------------------
(* tx2_hsp_init *)

MapCall(v) == [fn |-> "ps_pmem_map", region |-> tx2_hsp_region, addr |-> NULL,
               length |-> tx2_hsp_region.length, ret |-> v]

tx2_hsp_init(ioNull, hspNull) ==
    /\ Ready
    /\ IF ioNull \/ hspNull
       THEN /\ last' = Call("init", hspNull, 0, -EINVAL, <<>>, <<>>)
            /\ UNCHANGED <<dim, reg, mapped, stray, hsp, pc, cur, fresh, crashed>>
       ELSE \E v \in (MapBases \ mapped) \cup {NULL} :
            IF v = NULL
            THEN /\ hsp' = [hsp EXCEPT !.hsp_base = NULL]
                 /\ last' = Call("init", FALSE, 0, -ENOMEM, <<>>, <<MapCall(v)>>)
                 /\ UNCHANGED <<dim, reg, mapped, stray, pc, cur, fresh, crashed>>
            ELSE LET a == v + HSP_INT_DIMENSION_OFFSET
                     d == reg[HSP_INT_DIMENSION_OFFSET]
                 IN /\ mapped' = mapped \cup {v}
                    /\ hsp' = [hsp_base |-> v, doorbell_base |-> v + doorbell_offset(d)]
                    /\ last' = Call("init", FALSE, 0, 0,
                                    <<Rd(a, d), Rd(a, d), Rd(a, d)>>, <<MapCall(v)>>)
                    /\ UNCHANGED <<dim, reg, stray, pc, cur, fresh, crashed>>

----------------------------------------------------------------------------
(* tx2_hsp_destroy *)

\* variant: the size of the descriptor instead of the length of the region
UnmapCall_sizeof(a, len) == [fn |-> "ps_io_unmap", region |-> tx2_hsp_region, addr |-> a,
                             length |-> "sizeof(tx2_hsp_region)", ret |-> 0]

UnmapCall(a, len) == [fn |-> "ps_io_unmap", region |-> tx2_hsp_region, addr |-> a,
                      length |-> len, ret |-> 0]

\* variant: the handle is cleared after the unmap
tx2_hsp_destroy_clearing(ioNull, hspNull) ==
    /\ Ready
    /\ IF ioNull \/ hspNull
       THEN /\ last' = Call("destroy", hspNull, 0, -EINVAL, <<>>, <<>>)
            /\ UNCHANGED <<dim, reg, mapped, stray, hsp, pc, cur, fresh, crashed>>
       ELSE IF hsp.hsp_base # NULL
       THEN /\ mapped' = mapped \ {hsp.hsp_base}
            /\ stray' = IF hsp.hsp_base \in mapped THEN stray ELSE stray \cup {hsp.hsp_base}
            /\ hsp' = [hsp_base |-> NULL, doorbell_base |-> NULL]
            /\ last' = Call("destroy", FALSE, 0, 0, <<>>,
                            <<UnmapCall(hsp.hsp_base, tx2_hsp_region.length)>>)
            /\ UNCHANGED <<dim, reg, pc, cur, fresh, crashed>>
       ELSE /\ last' = Call("destroy", FALSE, 0, 0, <<>>, <<>>)
            /\ UNCHANGED <<dim, reg, mapped, stray, hsp, pc, cur, fresh, crashed>>

tx2_hsp_destroy(ioNull, hspNull) ==
    /\ Ready
    /\ IF ioNull \/ hspNull
       THEN /\ last' = Call("destroy", hspNull, 0, -EINVAL, <<>>, <<>>)
            /\ UNCHANGED <<dim, reg, mapped, stray, hsp, pc, cur, fresh, crashed>>
       ELSE IF hsp.hsp_base # NULL
       THEN /\ mapped' = mapped \ {hsp.hsp_base}
            /\ stray' = IF hsp.hsp_base \in mapped THEN stray ELSE stray \cup {hsp.hsp_base}
            /\ last' = Call("destroy", FALSE, 0, 0, <<>>,
                            <<UnmapCall(hsp.hsp_base, tx2_hsp_region.length)>>)
            /\ UNCHANGED <<dim, reg, hsp, pc, cur, fresh, crashed>>
       ELSE /\ last' = Call("destroy", FALSE, 0, 0, <<>>, <<>>)
            /\ UNCHANGED <<dim, reg, mapped, stray, hsp, pc, cur, fresh, crashed>>

----------------------------------------------------------------------------
(* tx2_hsp_doorbell_ring *)

RungIds == {id \in 0 .. 6 : reg[HwTriggerOff(dim, id)] # {}}

tx2_hsp_doorbell_ring(hspNull, db_id) ==
    /\ Ready
    /\ IF hspNull \/ ~check_doorbell_id_is_valid(db_id)
       THEN /\ last' = Call("ring", hspNull, db_id, -EINVAL, <<>>, <<>>)
            /\ UNCHANGED <<dim, reg, mapped, stray, hsp, pc, cur, fresh, crashed>>
       ELSE LET trigger_reg ==
                    tx2_hsp_get_doorbell_register(hsp.doorbell_base, db_id, DBELL_TRIGGER)
            IN IF Resolve(trigger_reg) # {}
               THEN \E o \in Resolve(trigger_reg) :
                    /\ reg[o] # {} \/ Cardinality(RungIds) < MaxRung
                    /\ reg' = [reg EXCEPT ![o] = ToBits(1)]
                    /\ last' = Call("ring", FALSE, db_id, 0,
                                    <<Wr(trigger_reg, ToBits(1), reg[o])>>, <<>>)
                    /\ UNCHANGED <<dim, mapped, stray, hsp, pc, cur, fresh, crashed>>
               ELSE \* no live mapping behind trigger_reg: assert(trigger_reg)
                    \* aborts on NULL, and the store is undefined otherwise
                    \E fault \in BOOLEAN :
                    /\ crashed' = fault
                    /\ last' = Call("ring", FALSE, db_id, 0,
                                    <<Wr(trigger_reg, ToBits(1), {})>>, <<>>)
                    /\ UNCHANGED <<dim, reg, mapped, stray, hsp, pc, cur, fresh>>

----------------------------------------------------------------------------
(* tx2_hsp_doorbell_check *)

\* variants: the mask not complemented; the register written as zero
clear_value_kept(v, db_id) == And32(v, pending_mask(db_id))
clear_value_zero(v, db_id) == {}

\* the value the clear writes back, line 189
clear_value(v, db_id) == And32(v, Not32(pending_mask(db_id)))

\* variant: the secure half tested
is_pending_secure(v, db_id) ==
    And32(v, Shl(ToBits(bitmap_offset(db_id)), HSP_BITMAP_TZ_SECURE_SHFIT))

\* line 186
is_pending(v, db_id) == And32(v, pending_mask(db_id))

\* the whole call, run without interruption
tx2_hsp_doorbell_check(hspNull, db_id) ==
    /\ Ready
    /\ IF hspNull \/ ~check_doorbell_id_is_valid(db_id)
       THEN /\ last' = Call("check", hspNull, db_id, -EINVAL, <<>>, <<>>)
            /\ UNCHANGED <<dim, reg, mapped, stray, hsp, pc, cur, fresh, crashed>>
       ELSE IF db_id \notin SwitchIds
       THEN \* default: of the switch, a fatal error
            /\ crashed' = TRUE
            /\ last' = Call("check", FALSE, db_id, 0, <<>>, <<>>)
            /\ UNCHANGED <<dim, reg, mapped, stray, hsp, pc, cur, fresh>>
       ELSE LET pending_reg ==
                    tx2_hsp_get_doorbell_register(hsp.doorbell_base, db_id, DBELL_PENDING)
            IN IF Resolve(pending_reg) # {}
               THEN \E o \in Resolve(pending_reg) :
                    IF is_pending(reg[o], db_id) # {}
                    THEN /\ reg' = [reg EXCEPT ![o] = clear_value(reg[o], db_id)]
                         /\ fresh' = IF o = HwPendingOff(dim, db_id)
                                     THEN fresh \ {db_id} ELSE fresh
                         /\ last' = Call("check", FALSE, db_id, 1,
                                         <<Rd(pending_reg, reg[o]), Rd(pending_reg, reg[o]),
                                           Wr(pending_reg, clear_value(reg[o], db_id), reg[o])>>,
                                         <<>>)
                         /\ UNCHANGED <<dim, mapped, stray, hsp, pc, cur, crashed>>
                    ELSE /\ last' = Call("check", FALSE, db_id, 0,
                                         <<Rd(pending_reg, reg[o])>>, <<>>)
                         /\ UNCHANGED <<dim, reg, mapped, stray, hsp, pc, cur, fresh, crashed>>
               ELSE \* no live mapping behind pending_reg: the load is undefined
                    \E fault \in BOOLEAN, v \in {{}, pending_mask(db_id)} :
                    /\ crashed' = fault
                    /\ last' = Call("check", FALSE, db_id,
                                    IF is_pending(v, db_id) # {} THEN 1 ELSE 0,
                                    IF is_pending(v, db_id) # {}
                                    THEN <<Rd(pending_reg, v), Rd(pending_reg, v),
                                           Wr(pending_reg, clear_value(v, db_id), v)>>
                                    ELSE <<Rd(pending_reg, v)>>,
                                    <<>>)
                    /\ UNCHANGED <<dim, reg, mapped, stray, hsp, pc, cur, fresh>>

----------------------------------------------------------------------------
(* The hardware raises a bit of a PENDING register *)

PendingRegsSet == {id \in 0 .. 6 : reg[HwPendingOff(dim, id)] # {}}

HwAssert(id, b) ==
    /\ ~crashed
    /\ id \in PendingRegsSet \/ Cardinality(PendingRegsSet) < MaxPendingRegs
    /\ reg' = [reg EXCEPT ![HwPendingOff(dim, id)] = Or32(@, b)]
    /\ fresh' = IF b = pending_mask(id) THEN fresh \cup {id} ELSE fresh
    /\ UNCHANGED <<dim, mapped, stray, hsp, pc, cur, crashed, last>>

----------------------------------------------------------------------------
(* tx2_hsp_doorbell_check, one memory access at a time: the load of line   *)
(* 186, then the load and the store of the compound assignment of line 189 *)

check_load(hspNull, db_id) ==
    /\ Ready
    /\ ~hspNull
    /\ check_doorbell_id_is_valid(db_id)
    /\ db_id \in SwitchIds
    /\ LET pending_reg ==
               tx2_hsp_get_doorbell_register(hsp.doorbell_base, db_id, DBELL_PENDING)
       IN \E o \in Resolve(pending_reg) :
          IF is_pending(reg[o], db_id) # {}
          THEN /\ pc' = "rmw_load"
               /\ cur' = [id |-> db_id, addr |-> pending_reg, off |-> o, tmp |-> {}]
               /\ last' = Call("checking", FALSE, db_id, 0, <<Rd(pending_reg, reg[o])>>, <<>>)
               /\ UNCHANGED <<dim, reg, mapped, stray, hsp, fresh, crashed>>
          ELSE /\ last' = Call("check", FALSE, db_id, 0, <<Rd(pending_reg, reg[o])>>, <<>>)
               /\ UNCHANGED <<dim, reg, mapped, stray, hsp, pc, cur, fresh, crashed>>

check_rmw_load ==
    /\ pc = "rmw_load"
    /\ ~crashed
    /\ pc' = "rmw_store"
    /\ cur' = [cur EXCEPT !.tmp = reg[cur.off]]
    /\ last' = [last EXCEPT !.acc = Append(@, Rd(cur.addr, reg[cur.off]))]
    /\ UNCHANGED <<dim, reg, mapped, stray, hsp, fresh, crashed>>

\* variant: the clear done on the register in one step
check_rmw_store_atomic ==
    /\ pc = "rmw_store"
    /\ ~crashed
    /\ pc' = "idle"
    /\ cur' = NoCur
    /\ reg' = [reg EXCEPT ![cur.off] = clear_value(@, cur.id)]
    /\ fresh' = IF cur.off = HwPendingOff(dim, cur.id) THEN fresh \ {cur.id} ELSE fresh
    /\ last' = [last EXCEPT !.op = "check", !.ret = 1,
                            !.acc = Append(@, Wr(cur.addr, clear_value(reg[cur.off], cur.id),
                                                 reg[cur.off]))]
    /\ UNCHANGED <<dim, mapped, stray, hsp, crashed>>

check_rmw_store ==
    /\ pc = "rmw_store"
    /\ ~crashed
    /\ pc' = "idle"
    /\ cur' = NoCur
    /\ reg' = [reg EXCEPT ![cur.off] = clear_value(cur.tmp, cur.id)]
    /\ fresh' = IF cur.off = HwPendingOff(dim, cur.id) THEN fresh \ {cur.id} ELSE fresh
    /\ last' = [last EXCEPT !.op = "check", !.ret = 1,
                            !.acc = Append(@, Wr(cur.addr, clear_value(cur.tmp, cur.id),
                                                 reg[cur.off]))]
    /\ UNCHANGED <<dim, mapped, stray, hsp, crashed>>

----------------------------------------------------------------------------
(* Specifications *)

\* (io_ops is NULL, hsp is NULL)
PtrArgs == {<<FALSE, FALSE>>, <<TRUE, FALSE>>, <<FALSE, TRUE>>}
\* doorbell ids the caller passes: the enumeration and a value on each side
DbIdArgs == (CCPLEX_PM_DBELL - 1) .. (APE_DBELL + 1)
\* (hsp is NULL, db_id): a NULL handle with an id in and an id out of range
DbArgs == {<<FALSE, id>> : id \in DbIdArgs} \cup {<<TRUE, BPMP_DBELL>>, <<TRUE, APE_DBELL + 1>>}

\* the caller's calls, one after the other
Next ==
    \/ \E a \in PtrArgs : tx2_hsp_init(a[1], a[2])
    \/ \E a \in PtrArgs : tx2_hsp_destroy(a[1], a[2])
    \/ \E a \in DbArgs : tx2_hsp_doorbell_ring(a[1], a[2])
    \/ \E a \in DbArgs : tx2_hsp_doorbell_check(a[1], a[2])

Spec == Init /\ [][Next]_vars

\* polling while the hardware raises events between the calls
NextHw ==
    \/ tx2_hsp_init(FALSE, FALSE)
    \/ \E db_id \in ValidIds : tx2_hsp_doorbell_check(FALSE, db_id)
    \/ \E id \in ValidIds : \E b \in HwBits(id) : HwAssert(id, b)

SpecHw == InitHw /\ [][NextHw]_vars

\* polling while the hardware raises events between the memory accesses
NextRace ==
    \/ tx2_hsp_init(FALSE, FALSE)
    \/ \E db_id \in ValidIds : check_load(FALSE, db_id)
    \/ check_rmw_load
    \/ check_rmw_store
    \/ \E id \in ValidIds : \E b \in HwBits(id) : HwAssert(id, b)

SpecRace == InitHw /\ [][NextRace]_vars

\* initialisation over the values of the dimension register
NextDim ==
    \/ \E a \in PtrArgs : tx2_hsp_init(a[1], a[2])
    \/ \E a \in PtrArgs : tx2_hsp_destroy(a[1], a[2])

SpecDim == InitDim /\ [][NextDim]_vars

----------------------------------------------------------------------------
(* Vocabulary of the properties *)

\* the handle has been initialised with success and not torn down since
Live ==
    /\ hsp.hsp_base \in mapped
    /\ hsp.doorbell_base = hsp.hsp_base + HwDoorbellPage[dim]

\* position of the class bit of a doorbell id in a half of the PENDING
\* register: CCPLEX_BIT, BPMP_BIT, SPE_BIT, SCE_BIT, APE_BIT
ClassBitPos(id) ==
    IF id \in {CCPLEX_PM_DBELL, CCPLEX_TZ_UNSECURE_DBELL, CCPLEX_TZ_SECURE_DBELL} THEN 1
    ELSE IF id = BPMP_DBELL THEN 3
    ELSE IF id = SPE_DBELL THEN 4
    ELSE IF id = SCE_DBELL THEN 5
    ELSE 11

Writes(acc) == {i \in 1 .. Len(acc) : acc[i].kind = "write"}

----------------------------------------------------------------------------
(* C1: on an initialised handle and a valid doorbell id,                   *)
(* tx2_hsp_doorbell_ring returns 0 and performs exactly one register       *)
(* access, the write of 1 to doorbell_base + id * 0x100 + 0x0; only the    *)
(* TRIGGER register of that id changes and the handle keeps its fields.    *)
C1_RingWritesOnlyTrigger ==
    [][\A id \in 0 .. 6 :
        (Live /\ tx2_hsp_doorbell_ring(FALSE, id)) =>
            /\ last'.ret = 0
            /\ Len(last'.acc) = 1
            /\ last'.acc[1].kind = "write"
            /\ last'.acc[1].addr = hsp.doorbell_base + id * 256 + 0
            /\ last'.acc[1].val = {0}
            /\ reg'[HwTriggerOff(dim, id)] = {0}
            /\ \A o \in DOMAIN reg : o # HwTriggerOff(dim, id) => reg'[o] = reg[o]
            /\ hsp' = hsp
            /\ ~crashed']_vars

C1_Witness ==
    /\ Live
    /\ last.op = "ring" /\ last.id = APE_DBELL /\ last.ret = 0
    /\ reg[HwTriggerOff(dim, APE_DBELL)] = {0}
    /\ reg[HwPendingOff(dim, BPMP_DBELL)] # {}

(* C2: with a doorbell id below CCPLEX_PM_DBELL or above APE_DBELL, or     *)
(* with a NULL handle, tx2_hsp_doorbell_ring and tx2_hsp_doorbell_check    *)
(* return -EINVAL and access no register.                                  *)
C2_InvalidArgsRejected ==
    [][\A a \in {x \in DbArgs : x[1] \/ x[2] < 0 \/ x[2] > 6} :
        (tx2_hsp_doorbell_ring(a[1], a[2]) \/ tx2_hsp_doorbell_check(a[1], a[2])) =>
            /\ last'.ret = -EINVAL
            /\ last'.acc = <<>>
            /\ reg' = reg
            /\ ~crashed']_vars

C2_Witness ==
    /\ Live
    /\ last.op = "check" /\ ~last.hspNull /\ last.id = APE_DBELL + 1
    /\ last.ret = -EINVAL
    /\ reg[HwPendingOff(dim, BPMP_DBELL)] # {}

(* C6: tx2_hsp_destroy right after a successful tx2_hsp_init returns 0 and *)
(* issues exactly one unmap call, for the base the map call returned and   *)
(* the length the map call was given; the mapping is released.             *)
C6_InitDestroyPair ==
    [][(last.op = "init" /\ last.ret = 0 /\ tx2_hsp_destroy(FALSE, FALSE)) =>
            /\ last'.ret = 0
            /\ Len(last'.mcalls) = 1
            /\ last'.mcalls[1].fn = "ps_io_unmap"
            /\ last'.mcalls[1].addr = last.mcalls[1].ret
            /\ last'.mcalls[1].length = last.mcalls[1].length
            /\ last.mcalls[1].ret \notin mapped'
            /\ stray' = stray]_vars

C6_Witness ==
    /\ last.op = "destroy" /\ last.ret = 0
    /\ Len(last.mcalls) = 1
    /\ last.mcalls[1].addr \in MapBases
    /\ last.mcalls[1].addr = hsp.hsp_base
    /\ mapped = {}
    /\ stray = {}

(* C7: a ring or check on a handle that is not initialised (never          *)
(* initialised, init failed, or torn down) accesses no register through    *)
(* doorbell_base.                                                          *)
C7_GuardedWhenNotLive ==
    (last.op \in {"ring", "check"} /\ ~Live) => last.acc = <<>>

(* C10: tx2_hsp_destroy issues one unmap of hsp_base with the fixed length *)
(* when hsp_base is not NULL and nothing otherwise, and leaves the handle  *)
(* as it was, so a destroy after a destroy unmaps the same base again.     *)
C10_DestroyKeepsHandle ==
    [][tx2_hsp_destroy(FALSE, FALSE) =>
            /\ last'.ret = 0
            /\ hsp' = hsp
            /\ IF hsp.hsp_base # 0
               THEN /\ Len(last'.mcalls) = 1
                    /\ last'.mcalls[1].fn = "ps_io_unmap"
                    /\ last'.mcalls[1].addr = hsp.hsp_base
                    /\ last'.mcalls[1].length = "TX2_HSP_SIZE"
                    /\ (last.op = "destroy" /\ last.ret = 0 /\ last.mcalls # <<>>)
                            => (last'.mcalls = last.mcalls /\ hsp.hsp_base \in stray')
               ELSE /\ last'.mcalls = <<>>
                    /\ mapped' = mapped
                    /\ stray' = stray]_vars

\* the base a successful init stored has been unmapped while already unmapped
C10_Witness ==
    /\ last.op = "destroy" /\ last.ret = 0
    /\ hsp.hsp_base \in MapBases
    /\ hsp.hsp_base \in stray
    /\ hsp.doorbell_base = hsp.hsp_base + HwDoorbellPage[dim]

----------------------------------------------------------------------------
(* C3: on an initialised handle, tx2_hsp_doorbell_check of a valid id      *)
(* returns true exactly when the hardware has raised that id's event since *)
(* the last check that reported it, so one event is reported once; a       *)
(* BPMP_DBELL register reading 0x80000 gives true and then reads 0.        *)
C3_TrueOncePerEvent ==
    [][\A id \in 0 .. 6 :
        (Live /\ tx2_hsp_doorbell_check(FALSE, id)) =>
            /\ last'.ret \in {0, 1}
            /\ (last'.ret = 1) <=> (id \in fresh)
            /\ (id = BPMP_DBELL /\ reg[HwPendingOff(dim, id)] = {19}) =>
                    (last'.ret = 1 /\ reg'[HwPendingOff(dim, id)] = {})]_vars

C3_Witness ==
    /\ Live
    /\ last.op = "check" /\ last.id = BPMP_DBELL /\ last.ret = 1
    /\ last.acc[1].val = {19}
    /\ reg[HwPendingOff(dim, BPMP_DBELL)] = {}
    /\ BPMP_DBELL \notin fresh

(* C5: tx2_hsp_doorbell_check of a valid id reads the PENDING register at  *)
(* doorbell_base + id * 0x100 + 0xc and returns true exactly when the      *)
(* class bit of the id, shifted by 16, is set in it; the bit at shift 0    *)
(* decides nothing.                                                        *)
C5_TestsNonSecureClassBit ==
    [][\A id \in 0 .. 6 :
        (Live /\ tx2_hsp_doorbell_check(FALSE, id)) =>
            /\ last'.acc[1].kind = "read"
            /\ last'.acc[1].addr = hsp.doorbell_base + id * 256 + 12
            /\ last'.acc[1].val = reg[HwPendingOff(dim, id)]
            /\ (last'.ret = 1) <=> ((ClassBitPos(id) + 16) \in reg[HwPendingOff(dim, id)])
            /\ (last'.ret = 0) <=> ((ClassBitPos(id) + 16) \notin reg[HwPendingOff(dim, id)])]_vars

\* only the secure-half bit of the class is set, and the check said false
C5_Witness ==
    /\ Live
    /\ last.op = "check" /\ last.id = SCE_DBELL /\ last.ret = 0
    /\ last.acc[1].val = {ClassBitPos(SCE_DBELL)}
    /\ reg[HwPendingOff(dim, SCE_DBELL)] = {ClassBitPos(SCE_DBELL)}

(* C8: tx2_hsp_doorbell_check of a valid id writes nothing when the        *)
(* non-secure class bit is clear; when it is set the check clears that bit *)
(* alone: the other bits of the register and every other register keep     *)
(* their values.                                                           *)
C8_ClearsOnlyOwnBit ==
    [][\A id \in 0 .. 6 :
        (Live /\ tx2_hsp_doorbell_check(FALSE, id)) =>
            LET o == HwPendingOff(dim, id)
                m == ClassBitPos(id) + 16
            IN /\ \A o2 \in DOMAIN reg : o2 # o => reg'[o2] = reg[o2]
               /\ IF m \in reg[o]
                  THEN /\ reg'[o] = reg[o] \ {m}
                       /\ \A i \in Writes(last'.acc) :
                            last'.acc[i].addr = hsp.doorbell_base + id * 256 + 12
                  ELSE /\ reg' = reg
                       /\ Writes(last'.acc) = {}]_vars

\* a check cleared its bit while the secure half of the same register and
\* the event of another doorbell stayed
C8_Witness ==
    /\ Live
    /\ last.op = "check" /\ last.id = CCPLEX_PM_DBELL /\ last.ret = 1
    /\ reg[HwPendingOff(dim, CCPLEX_PM_DBELL)] = {ClassBitPos(CCPLEX_PM_DBELL)}
    /\ reg[HwPendingOff(dim, CCPLEX_TZ_SECURE_DBELL)]
            = {ClassBitPos(CCPLEX_TZ_SECURE_DBELL) + 16}

----------------------------------------------------------------------------
(* C4: a successful tx2_hsp_init sets doorbell_base to hsp_base +          *)
(* (1 + floor(numSM / 2) + numSS + numAS) * 0x10000 with the counts taken  *)
(* from bits [3:0], [7:4] and [11:8] of the dimension register, whatever   *)
(* bits [31:12] hold; numSM = 4, numSS = 2, numAS = 1 gives 0x60000.       *)
Count4(d, lo) ==
    (IF lo \in d THEN 1 ELSE 0) + (IF (lo + 1) \in d THEN 2 ELSE 0)
        + (IF (lo + 2) \in d THEN 4 ELSE 0) + (IF (lo + 3) \in d THEN 8 ELSE 0)

C4_DoorbellBase ==
    (last.op = "init" /\ last.ret = 0) =>
        /\ hsp.doorbell_base
            = hsp.hsp_base
                + (1 + (Count4(dim, 0) \div 2) + Count4(dim, 4) + Count4(dim, 8)) * 65536
        /\ (Count4(dim, 0) = 4 /\ Count4(dim, 4) = 2 /\ Count4(dim, 8) = 1)
                => hsp.doorbell_base = hsp.hsp_base + 393216
        /\ last.acc[1].addr = hsp.hsp_base + 896

C4_Witness ==
    /\ last.op = "init" /\ last.ret = 0
    /\ dim = {2, 5, 8} \cup (12 .. 31)
    /\ hsp.doorbell_base = hsp.hsp_base + 393216

----------------------------------------------------------------------------
(* C9: the store of the clear writes back the value loaded before it with  *)
(* the class bit cleared, so a bit the hardware raised in the register     *)
(* between the load and the store is overwritten; the check returns true   *)
(* and reports nothing.                                                    *)
C9_StoreOverwrites ==
    [][check_rmw_store =>
            /\ reg'[cur.off] = cur.tmp \ {ClassBitPos(cur.id) + 16}
            /\ \A b \in reg[cur.off] \ cur.tmp : b \notin reg'[cur.off]
            /\ last'.ret = 1
            /\ ~crashed']_vars

\* a check has returned true and its store wiped a bit that was not the
\* one it tested
C9_Witness ==
    /\ pc = "idle"
    /\ last.op = "check" /\ last.ret = 1
    /\ \E i \in Writes(last.acc) :
            (last.acc[i].old \ last.acc[i].val) \ {ClassBitPos(last.id) + 16} # {}

====
